---- MODULE Spec2Model ----
(***************************************************************************)
(* The chat route of pdftochat: src/app/document/[id]/page.tsx, POST       *)
(* (lines 316-424) with formatVercelMessages (271-282).                    *)
(*                                                                         *)
(* One behaviour is one request.  The handler (pc) runs against the        *)
(* LangChain pipeline it composes (chain), which is driven by the stream   *)
(* that outputChain.stream() creates:                                      *)
(*   history-aware retriever (rewrite, then vector search)                 *)
(*     -> stuff-documents chain (answer synthesis) -> answer fragments.    *)
(* The pipeline's collaborators (model, embeddings, vector index) are      *)
(* outside the repository; each of their calls is a step that either       *)
(* succeeds or fails.                                                      *)
(*                                                                         *)
(* Strings whose characters matter (pageContent, header values) are        *)
(* sequences of one-character strings.                                     *)
(***************************************************************************)
EXTENDS Integers, Sequences, FiniteSets

VARIABLES
    userId,                     \* auth().userId (line 318), Null when absent
    reqBody,                    \* what req.json() yields (line 324)
    streamSetup,                \* does stream() await the first result?
    pc,                         \* the handler's position in POST
    bodyRead,                   \* req.json() has been called
    messages,                   \* line 325
    formattedPreviousMessages,  \* lines 329-331
    currentMessageContent,      \* line 332
    namespace,                  \* the vectorstore's namespace (line 350)
    documentPromise,            \* lines 354-357
    serializedSources,          \* lines 404-413
    response,                   \* what POST returned
    chain,                      \* the pipeline's position
    failure,                    \* which pipeline step failed, if any
    llmCalls,                   \* calls made to the language model
    embedCalls,                 \* calls made to the embedding function
    searches,                   \* namespaces of the vector searches issued
    retrieved,                  \* the documents the vector search returned
    context,                    \* the documents handed to answer synthesis
    generated,                  \* answer fragments produced so far
    queue,                      \* fragments buffered in the stream (0 or 1)
    delivered,                  \* fragments read by the caller
    streamEnd,                  \* how the caller saw the response body end
    id,                         \* params.id of the chat page (line 17)
    query,                      \* the input field's value (line 19)
    loading,                    \* line 20
    error,                      \* line 21
    messageState,               \* messages and history (lines 22-35)
    inflight,                   \* the page's fetches that await their replies
    done                        \* the fetches that finished, with their outcomes

vars == << userId, reqBody, streamSetup, pc, bodyRead, messages,
           formattedPreviousMessages, currentMessageContent, namespace,
           documentPromise, serializedSources, response, chain, failure,
           llmCalls, embedCalls, searches, retrieved, context, generated,
           queue, delivered, streamEnd,
           id, query, loading, error, messageState, inflight, done >>

clientVars == << id, query, loading, error, messageState, inflight, done >>

-----------------------------------------------------------------------------
(* Bounds of the model *)

MaxMessages == 3        \* longest messages array in a request
MaxDocs == 3            \* most documents one vector search returns
MaxFragments == 2       \* most fragments of one answer
MaxSubmissions == 2     \* most questions sent from one chat page

(* Program constants *)

ExcerptLen == 50        \* doc.pageContent.slice(0, 50), line 408
StatusUnauthorized == 401   \* line 321
StatusError == 500          \* line 422

-----------------------------------------------------------------------------
(* Values *)

Null == "null"
Undefined == "undefined"

\* The { role, content } messages a request is built from: the two roles
\* formatVercelMessages names and one it does not, with two contents.
RawMessages ==
    { [role |-> "user", content |-> "q1"],
      [role |-> "assistant", content |-> "q2"],
      [role |-> "system", content |-> "q1"],
      [role |-> "system", content |-> "q2"] }

SeqsUpTo(S, n) == UNION {[1..k -> S] : k \in 0..n}

Min(a, b) == IF a < b THEN a ELSE b
Max(a, b) == IF a > b THEN a ELSE b

\* Array.prototype.slice / String.prototype.slice (lines 330, 408):
\* negative indices count from the end, both ends are clamped.
Slice(s, start, end) ==
    LET len == Len(s)
        from == IF start < 0 THEN Max(len + start, 0) ELSE Min(start, len)
        to == IF end < 0 THEN Max(len + end, 0) ELSE Min(end, len)
    IN  IF to <= from THEN << >> ELSE SubSeq(s, from + 1, to)

\* Number.prototype.toString (line 417), decimal digits.
Digits == << "0", "1", "2", "3", "4", "5", "6", "7", "8", "9" >>
RECURSIVE NumberToString(_)
NumberToString(n) ==
    IF n < 10 THEN << Digits[n + 1] >>
    ELSE NumberToString(n \div 10) \o << Digits[(n % 10) + 1] >>

-----------------------------------------------------------------------------
(* The vector index: documents per namespace.  Text(n, c) is a page        *)
(* content of n characters.                                                *)

Text(n, c) == [i \in 1..n |-> IF i % 2 = 1 THEN c ELSE "-"]

Doc(n, c, page) == [pageContent |-> Text(n, c), metadata |-> [page |-> page]]

Namespaces == {"A", "B", ""}

\* Namespace "A" holds contents shorter than, equal to and longer than ExcerptLen;
\* the document of page 1 is indexed under both "A" and "B", page 4 only under "B".
PineconeIndex(ns) ==
    CASE ns = "A" -> { Doc(3, "s", 1), Doc(ExcerptLen, "a", 2), Doc(ExcerptLen + 1, "a", 3) }
      [] ns = "B" -> { Doc(3, "s", 1), Doc(ExcerptLen + 7, "b", 4) }
      [] OTHER    -> { Doc(0, "d", 5) }

\* The namespace a search is scoped to: Pinecone reads an absent namespace
\* as its default namespace "".
ScopeOf(ns) == IF ns = Undefined THEN "" ELSE ns

Injective(s) == \A i, j \in 1..Len(s) : s[i] = s[j] => i = j

\* VectorStoreRetriever: the ranked results of one search of namespace ns.
SearchResults(ns) ==
    { s \in SeqsUpTo(PineconeIndex(ScopeOf(ns)), MaxDocs) : Injective(s) }

-----------------------------------------------------------------------------
(* formatVercelMessages, lines 271-282 *)

HumanMessage(content) == [type |-> "human", role |-> "human", content |-> content]
AIMessage(content) == [type |-> "ai", role |-> "ai", content |-> content]
ChatMessage(content, role) == [type |-> "generic", role |-> role, content |-> content]

\* as if the 'assistant' branch were missing
formatVercelMessages_NoAssistant(message) ==
    IF message.role = "user" THEN HumanMessage(message.content)
    ELSE ChatMessage(message.content, message.role)

formatVercelMessages(message) ==
    IF message.role = "user" THEN HumanMessage(message.content)
    ELSE IF message.role = "assistant" THEN AIMessage(message.content)
    ELSE ChatMessage(message.content, message.role)

\* messages.slice(0, -1).map(formatVercelMessages), lines 329-331
FormatPrevious(msgs) ==
    LET previous == Slice(msgs, 0, -1)
    IN  [i \in 1..Len(previous) |-> formatVercelMessages(previous[i])]

-----------------------------------------------------------------------------
(* Responses *)

NoResponse ==
    [kind |-> "none", status |-> 0, body |-> "",
     messageIndex |-> << >>, sources |-> << >>]

\* new Response('Unauthorized', { status: 401 }), line 321
Unauthorized ==
    [kind |-> "unauthorized", status |-> StatusUnauthorized, body |-> "Unauthorized",
     messageIndex |-> << >>, sources |-> << >>]

\* NextResponse.json({ error: e.message }, { status: 500 }), line 422
ErrorResponse(message) ==
    [kind |-> "error", status |-> StatusError, body |-> message,
     messageIndex |-> << >>, sources |-> << >>]

\* new StreamingTextResponse(stream, { headers }), lines 415-420; its status is 200
StreamingTextResponse(index, sources) ==
    [kind |-> "stream", status |-> 200, body |-> "stream",
     messageIndex |-> index, sources |-> sources]

Pending == [state |-> "pending", value |-> << >>]
Resolved(documents) == [state |-> "resolved", value |-> documents]

-----------------------------------------------------------------------------
(* The request *)

ChatIds == {"A", "B", Undefined}

\* A body req.json() cannot parse.
MalformedBody ==
    [parses |-> FALSE, hasMessages |-> FALSE, messages |-> << >>, chatId |-> Undefined]

Bodies ==
    {MalformedBody}
    \cup [parses : {TRUE}, hasMessages : {FALSE}, messages : {<< >>}, chatId : ChatIds]
    \cup [parses : {TRUE}, hasMessages : {TRUE},
          messages : SeqsUpTo(RawMessages, MaxMessages), chatId : ChatIds]

-----------------------------------------------------------------------------
(* The pieces of POST *)

\* as if the userId check were missing
IsAuthenticated_Always == TRUE

\* if (!userId), line 320
IsAuthenticated == userId # Null

\* body.messages ?? [], line 325
MessagesOf(body) == IF body.hasMessages THEN body.messages ELSE << >>

\* as if the empty-messages check were missing
NoMessages_Never(msgs) == FALSE

\* if (!messages.length), line 326
NoMessages(msgs) == Len(msgs) = 0

\* as if the store were opened on one fixed namespace
StoreNamespace_Fixed(body) == "B"

\* namespace: chatId with chatId = body.chatId, lines 333 and 350
StoreNamespace(body) == body.chatId

\* handleRetrieverEnd(documents) { resolveWithDocuments(documents) }, lines 362-366;
\* resolving a settled promise changes nothing.
handleRetrieverEnd(documents) ==
    IF documentPromise.state = "pending" THEN Resolved(documents) ELSE documentPromise

\* The retriever's callbacks (lines 360-368) hold no handleRetrieverError: a failed
\* retrieval leaves documentPromise as it is.
OnRetrieverError == documentPromise

\* as if the rephrasing branch of the history-aware retriever were never taken
NeedsRewrite_Never == FALSE

\* createHistoryAwareRetriever (lines 373-377) branches on chat_history: with prior
\* turns the model rephrases the input, with none the input is the query.
NeedsRewrite == Len(formattedPreviousMessages) > 0

\* as if a failed call were issued again
OnCallFailed_Retry(step) == step

\* No step of the chain is wrapped in a retry or a fallback (lines 373-396) and
\* POST has no loop: a call that fails ends the pipeline.
OnCallFailed(step) == "failed"

\* as if the answer chain ran beside the retriever instead of after it
SynthesisEnabled_Early == chain \in {"retrieve", "synthesize"}

\* createRetrievalChain (lines 386-389): the combine-documents chain runs on the
\* retriever's output.
SynthesisEnabled == chain = "synthesize"

\* await outputChain.stream(...), line 398.  Runnable.stream() of @langchain/core
\* either hands back the stream at once, the pipeline running behind it
\* (streamSetup = FALSE), or first awaits the pipeline's first result
\* (streamSetup = TRUE), depending on the library's version.
StreamSettled == IF streamSetup THEN generated > 0 \/ chain = "closed" ELSE TRUE

\* as if the documents were read without awaiting the promise
DocumentsSettled_NoAwait == TRUE

\* await documentPromise, line 403
DocumentsSettled == documentPromise.state = "resolved"

\* the '...' of line 408
Ellipsis == << ".", ".", "." >>

\* as if the excerpt were cut one character late
ToSource_OffByOne(doc) ==
    [pageContent |-> Slice(doc.pageContent, 0, ExcerptLen + 1) \o Ellipsis,
     metadata |-> doc.metadata]

\* { pageContent: doc.pageContent.slice(0, 50) + '...', metadata: doc.metadata },
\* lines 407-410
ToSource(doc) ==
    [pageContent |-> Slice(doc.pageContent, 0, ExcerptLen) \o Ellipsis,
     metadata |-> doc.metadata]

\* as if the entries came out in the opposite order
SerializeSources_Reversed(documents) ==
    [i \in 1..Len(documents) |-> ToSource(documents[Len(documents) + 1 - i])]

\* documents.map(...), lines 404-413.  JSON.stringify and base64 carry the entries
\* (strings and numbers) to the client unchanged; the header is kept decoded.
SerializeSources(documents) ==
    [i \in 1..Len(documents) |-> ToSource(documents[i])]

\* as if the new turn were not counted
MessageIndexHeader_NoIncrement(previous) == NumberToString(Len(previous))

\* (formattedPreviousMessages.length + 1).toString(), line 417
MessageIndexHeader(previous) == NumberToString(Len(previous) + 1)

\* as if the stream were wrapped so that an error ends the body like a completion
StreamOutcome_Swallowed == "done"

\* new StreamingTextResponse(stream, ...), line 415: the pipeline's stream is the
\* response body as it is.  A ReadableStream whose source throws is errored, and
\* a read of it rejects; one whose source ends is closed, and a read reports done.
StreamOutcome == IF chain = "failed" THEN "error" ELSE "done"

\* catch (e) { return NextResponse.json({ error: e.message }, { status: 500 }) }
Catch(message) ==
    /\ response' = ErrorResponse(message)
    /\ pc' = "done"

-----------------------------------------------------------------------------
-----------------------------------------------------------------------------
(* The chat page, DocumentChat (lines 15-241): its values *)

\* the first message of the list, lines 29-32
Greeting ==
    [type |-> "apiMessage", message |-> "Hi, what would you like to learn about this pdf?"]

\* lines 62-65
UserMessage(question) == [type |-> "userMessage", message |-> question]

\* lines 91-95
ApiMessage(text, sourceDocuments) ==
    [type |-> "apiMessage", message |-> text, sourceDocs |-> sourceDocuments]

\* What can be typed into the input field; a string is the sequence of its
\* characters, " " is white space.
Queries == { << >>, << " " >>, << "h", "i" >>, << " ", "h", "i", " " >> }

RECURSIVE TrimStart(_)
TrimStart(s) == IF Len(s) > 0 /\ s[1] = " " THEN TrimStart(Tail(s)) ELSE s

RECURSIVE TrimEnd(_)
TrimEnd(s) ==
    IF Len(s) > 0 /\ s[Len(s)] = " " THEN TrimEnd(SubSeq(s, 1, Len(s) - 1)) ELSE s

\* String.prototype.trim, line 56
Trim(s) == TrimEnd(TrimStart(s))

\* !query (line 51) and the `&& query` of line 114: only '' is falsy
IsEmptyQuery(q) == Len(q) = 0

\* the object of JSON.stringify, lines 78-82
RequestBody(chatId, question, history) ==
    [chatId |-> chatId, question |-> question, history |-> history]

\* The body as POST reads it (lines 324-325): the object parses, it has a
\* chatId, and it has no key `messages`.
ReceivedBody(sent) ==
    [parses |-> TRUE, hasMessages |-> FALSE, messages |-> << >>, chatId |-> sent.chatId]

\* What response.json() (line 84) can yield: an answer, or an object with an
\* error field, whose text is the message of the error caught (it may be '').
Answer(text) ==
    [hasError |-> FALSE, error |-> Undefined, text |-> text, sourceDocuments |-> << >>]
ErrorReply(message) ==
    [hasError |-> TRUE, error |-> message, text |-> Undefined,
     sourceDocuments |-> Undefined]
JsonReplies ==
    {Answer("a1"), Answer("a2"), ErrorReply(""), ErrorReply("No messages provided.")}

\* if (data.error), line 86: the field is present and its value is truthy
HasError(data) == data.hasError /\ data.error # ""

\* line 108
FetchErrorText == "An error occurred while fetching the data. Please try again."

\* as if the catch left the loading flag alone
LoadingAfterCatch_Stuck == TRUE

\* setLoading(false) in the catch, line 107
LoadingAfterCatch == FALSE

\* as if the textarea and the button were never disabled
InputDisabled_Never == FALSE

\* disabled={loading} on the textarea (line 193) and on the button (line 212)
InputDisabled == loading

RemoveAt(s, i) == SubSeq(s, 1, i - 1) \o SubSeq(s, i + 1, Len(s))

-----------------------------------------------------------------------------
(* The initial state *)

\* POST before its first statement, the pipeline not yet composed
HandlerIdle ==
    /\ pc = "auth"
    /\ bodyRead = FALSE
    /\ messages = << >>
    /\ formattedPreviousMessages = << >>
    /\ currentMessageContent = ""
    /\ namespace = Undefined
    /\ documentPromise = Pending
    /\ serializedSources = << >>
    /\ response = NoResponse
    /\ chain = "idle"
    /\ failure = "none"
    /\ llmCalls = 0
    /\ embedCalls = 0
    /\ searches = << >>
    /\ retrieved = << >>
    /\ context = << >>
    /\ generated = 0
    /\ queue = 0
    /\ delivered = 0
    /\ streamEnd = "open"

\* the chat page as first rendered: the useState initial values, lines 19-35
PageMounted ==
    /\ query = << >>
    /\ loading = FALSE
    /\ error = Null
    /\ messageState = [messages |-> << Greeting >>, history |-> << >>]
    /\ inflight = << >>
    /\ done = << >>

Init ==
    /\ userId \in {Null, "user_1"}
    /\ reqBody \in Bodies
    /\ streamSetup \in BOOLEAN
    /\ HandlerIdle
    /\ id = "A"
    /\ PageMounted

inputVars == << userId, reqBody, streamSetup >>
chainVars == << chain, failure, llmCalls, embedCalls, searches, retrieved, context,
                generated, queue, delivered, streamEnd >>

-----------------------------------------------------------------------------
(* The handler, POST *)

\* lines 318-322
Authenticate ==
    /\ pc = "auth"
    /\ IF IsAuthenticated
         THEN pc' = "body" /\ UNCHANGED response
         ELSE response' = Unauthorized /\ pc' = "done"
    /\ UNCHANGED << clientVars, inputVars, bodyRead, messages, formattedPreviousMessages,
                    currentMessageContent, namespace, documentPromise,
                    serializedSources, chainVars >>

\* lines 324-328
ReadBody ==
    /\ pc = "body"
    /\ bodyRead' = TRUE
    /\ IF ~reqBody.parses
         THEN Catch("Unexpected end of JSON input") /\ UNCHANGED messages
         ELSE /\ messages' = MessagesOf(reqBody)
              /\ IF NoMessages(messages')
                   THEN Catch("No messages provided.")
                   ELSE pc' = "prepare" /\ UNCHANGED response
    /\ UNCHANGED << clientVars, inputVars, formattedPreviousMessages, currentMessageContent,
                    namespace, documentPromise, serializedSources, chainVars >>

\* lines 329-396: nothing here calls a collaborator
\* (PineconeStore.fromExistingIndex only builds the store).
Prepare ==
    /\ pc = "prepare"
    /\ IF Len(messages) = 0
         THEN \* messages[messages.length - 1] is undefined, line 332
              /\ Catch("Cannot read properties of undefined")
              /\ UNCHANGED << formattedPreviousMessages, currentMessageContent,
                              namespace, documentPromise >>
         ELSE /\ formattedPreviousMessages' = FormatPrevious(messages)
              /\ currentMessageContent' = messages[Len(messages)].content
              /\ namespace' = StoreNamespace(reqBody)
              /\ documentPromise' = Pending
              /\ pc' = "stream"
              /\ UNCHANGED response
    /\ UNCHANGED << clientVars, inputVars, bodyRead, messages, serializedSources, chainVars >>

\* outputChain.stream(...) is called, line 398: the pipeline starts.
CallStream ==
    /\ pc = "stream"
    /\ chain' = "start"
    /\ pc' = "awaitStream"
    /\ UNCHANGED << clientVars, inputVars, bodyRead, messages, formattedPreviousMessages,
                    currentMessageContent, namespace, documentPromise,
                    serializedSources, response, failure, llmCalls, embedCalls,
                    searches, retrieved, context, generated, queue, delivered,
                    streamEnd >>

\* the await of line 398 yields the stream
StreamResolves ==
    /\ pc = "awaitStream"
    /\ StreamSettled
    /\ pc' = "awaitDocuments"
    /\ UNCHANGED << clientVars, inputVars, bodyRead, messages, formattedPreviousMessages,
                    currentMessageContent, namespace, documentPromise,
                    serializedSources, response, chainVars >>

\* the await of line 398 throws: the pipeline failed before its first result
StreamRejects ==
    /\ pc = "awaitStream"
    /\ streamSetup
    /\ chain = "failed"
    /\ generated = 0
    /\ Catch(failure)
    /\ UNCHANGED << clientVars, inputVars, bodyRead, messages, formattedPreviousMessages,
                    currentMessageContent, namespace, documentPromise,
                    serializedSources, chainVars >>

\* lines 403-413
AwaitDocuments ==
    /\ pc = "awaitDocuments"
    /\ DocumentsSettled
    /\ serializedSources' = SerializeSources(documentPromise.value)
    /\ pc' = "respond"
    /\ UNCHANGED << clientVars, inputVars, bodyRead, messages, formattedPreviousMessages,
                    currentMessageContent, namespace, documentPromise, response,
                    chainVars >>

\* lines 415-420
Respond ==
    /\ pc = "respond"
    /\ response' = StreamingTextResponse(MessageIndexHeader(formattedPreviousMessages),
                                         serializedSources)
    /\ pc' = "done"
    /\ UNCHANGED << clientVars, inputVars, bodyRead, messages, formattedPreviousMessages,
                    currentMessageContent, namespace, documentPromise,
                    serializedSources, chainVars >>

-----------------------------------------------------------------------------
(* The pipeline behind the stream.  The stream asks it for a result only    *)
(* while it buffers none (queue = 0): everything up to the first fragment   *)
(* runs as soon as stream() is called, every later fragment only after the  *)
(* caller has read the one before.                                          *)

handlerVars == << pc, bodyRead, messages, formattedPreviousMessages,
                  currentMessageContent, namespace, serializedSources, response >>

\* createHistoryAwareRetriever, lines 373-377: with prior turns the model is asked
\* for a search query; with none the input goes to the retriever as it is.
Rewrite ==
    /\ chain = "start"
    /\ IF NeedsRewrite
         THEN /\ llmCalls' = llmCalls + 1
              /\ \/ chain' = "retrieve" /\ UNCHANGED failure
                 \/ chain' = OnCallFailed("start") /\ failure' = "rewrite"
         ELSE chain' = "retrieve" /\ UNCHANGED << llmCalls, failure >>
    /\ UNCHANGED << clientVars, inputVars, handlerVars, streamEnd, documentPromise, embedCalls, searches,
                    retrieved, context, generated, queue, delivered >>

\* vectorstore.asRetriever({ callbacks }), lines 359-369: the query is embedded,
\* the store's namespace is searched, handleRetrieverEnd gets the result.
Retrieve ==
    /\ chain = "retrieve"
    /\ embedCalls' = embedCalls + 1
    /\ \/ /\ failure' = "embedding"
          /\ chain' = OnCallFailed("retrieve")
          /\ documentPromise' = OnRetrieverError
          /\ UNCHANGED << searches, retrieved >>
       \/ /\ searches' = Append(searches, ScopeOf(namespace))
          /\ \/ /\ failure' = "search"
                /\ chain' = OnCallFailed("retrieve")
                /\ documentPromise' = OnRetrieverError
                /\ UNCHANGED retrieved
             \/ \E documents \in SearchResults(namespace) :
                   /\ retrieved' = documents
                   /\ documentPromise' = handleRetrieverEnd(documents)
                   /\ chain' = "synthesize"
                   /\ UNCHANGED failure
    /\ UNCHANGED << clientVars, inputVars, handlerVars, streamEnd, llmCalls, context, generated, queue,
                    delivered >>

\* createStuffDocumentsChain, lines 380-383: the streamed model call over the
\* retrieved documents.
Synthesize ==
    /\ SynthesisEnabled
    /\ llmCalls' = llmCalls + 1
    /\ context' = retrieved
    /\ \/ chain' = "streaming" /\ UNCHANGED failure
       \/ chain' = OnCallFailed("synthesize") /\ failure' = "synthesis"
    /\ UNCHANGED << clientVars, inputVars, handlerVars, streamEnd, documentPromise, embedCalls, searches,
                    retrieved, generated, queue, delivered >>

\* RunnablePick + HttpResponseOutputParser, lines 392-396: one answer fragment
EmitFragment ==
    /\ chain = "streaming"
    /\ queue = 0
    /\ generated < MaxFragments
    /\ generated' = generated + 1
    /\ queue' = 1
    /\ UNCHANGED << clientVars, inputVars, handlerVars, streamEnd, documentPromise, chain, failure, llmCalls,
                    embedCalls, searches, retrieved, context, delivered >>

\* the model ends the answer
EndStream ==
    /\ chain = "streaming"
    /\ queue = 0
    /\ chain' = "closed"
    /\ UNCHANGED << clientVars, inputVars, handlerVars, streamEnd, documentPromise, failure, llmCalls,
                    embedCalls, searches, retrieved, context, generated, queue,
                    delivered >>

\* the model call breaks after a fragment
FailStream ==
    /\ chain = "streaming"
    /\ queue = 0
    /\ generated > 0
    /\ chain' = "failed"
    /\ failure' = "midstream"
    /\ UNCHANGED << clientVars, inputVars, handlerVars, streamEnd, documentPromise, llmCalls, embedCalls,
                    searches, retrieved, context, generated, queue, delivered >>

\* the caller reads a fragment off the body of the response it was given
ReadFragment ==
    /\ response.kind = "stream"
    /\ queue = 1
    /\ queue' = 0
    /\ delivered' = delivered + 1
    /\ UNCHANGED << clientVars, inputVars, handlerVars, streamEnd, documentPromise, chain, failure, llmCalls,
                    embedCalls, searches, retrieved, context, generated >>

\* the caller's read of the body finds it ended
ReadEnd ==
    /\ response.kind = "stream"
    /\ queue = 0
    /\ chain \in {"closed", "failed"}
    /\ streamEnd = "open"
    /\ streamEnd' = StreamOutcome
    /\ UNCHANGED << clientVars, inputVars, handlerVars, documentPromise, chain, failure, llmCalls,
                    embedCalls, searches, retrieved, context, generated, queue,
                    delivered >>

-----------------------------------------------------------------------------
Next ==
    \/ Authenticate
    \/ ReadBody
    \/ Prepare
    \/ CallStream
    \/ StreamResolves
    \/ StreamRejects
    \/ AwaitDocuments
    \/ Respond
    \/ Rewrite
    \/ Retrieve
    \/ Synthesize
    \/ EmitFragment
    \/ EndStream
    \/ FailStream
    \/ ReadFragment
    \/ ReadEnd

Spec == Init /\ [][Next]_vars

-----------------------------------------------------------------------------
TypeOK ==
    /\ pc \in {"auth", "body", "prepare", "stream", "awaitStream", "awaitDocuments",
               "respond", "done"}
    /\ chain \in {"idle", "start", "retrieve", "synthesize", "streaming", "closed",
                  "failed"}
    /\ failure \in {"none", "rewrite", "embedding", "search", "synthesis", "midstream"}
    /\ documentPromise.state \in {"pending", "resolved"}
    /\ response.kind \in {"none", "unauthorized", "error", "stream"}
    /\ queue \in 0..1
    /\ generated \in 0..MaxFragments
    /\ delivered \in 0..generated
    /\ streamEnd \in {"open", "done", "error"}

-----------------------------------------------------------------------------
(* The chat page, DocumentChat: its event handlers *)

serverVars == << inputVars, pc, bodyRead, messages, formattedPreviousMessages,
                 currentMessageContent, namespace, documentPromise,
                 serializedSources, response, chainVars >>

\* the questions this page has sent so far
Submissions == Len(done) + Len(inflight)

\* handleSubmit, lines 47-83: up to the fetch
handleSubmit ==
    /\ error' = Null
    /\ IF IsEmptyQuery(query)
         THEN UNCHANGED << query, loading, messageState, inflight >>
         ELSE LET question == Trim(query) IN
              /\ messageState' =
                    [messageState EXCEPT
                        !.messages = Append(@, UserMessage(question))]
              /\ loading' = TRUE
              /\ query' = << >>
              /\ inflight' =
                    Append(inflight, RequestBody(id, question, messageState.history))
    /\ UNCHANGED << serverVars, id, done >>

\* onChange of the textarea, line 208
SetQuery ==
    /\ ~InputDisabled
    /\ \E q \in Queries : query' = q
    /\ UNCHANGED << serverVars, id, loading, error, messageState, inflight, done >>

\* the form's onSubmit (line 191), fired by the submit button
SubmitForm ==
    /\ ~InputDisabled
    /\ Submissions < MaxSubmissions
    /\ handleSubmit

\* handleEnter, lines 114-120: the Enter key in the textarea
handleEnter ==
    /\ ~InputDisabled
    /\ Submissions < MaxSubmissions
    /\ IF ~IsEmptyQuery(query) THEN handleSubmit ELSE UNCHANGED vars

\* handleSubmit, lines 84-105: the reply has arrived and parsed
ResponseArrives ==
    \E i \in DOMAIN inflight, data \in JsonReplies :
        LET request == inflight[i] IN
        /\ IF HasError(data)
             THEN error' = data.error /\ UNCHANGED messageState
             ELSE /\ messageState' =
                        [messages |-> Append(messageState.messages,
                                             ApiMessage(data.text, data.sourceDocuments)),
                         history |-> Append(messageState.history,
                                            << request.question, data.text >>)]
                  /\ UNCHANGED error
        /\ loading' = FALSE
        /\ inflight' = RemoveAt(inflight, i)
        /\ done' = Append(done, [question |-> request.question,
                                 outcome |-> IF data.hasError THEN "errorField"
                                                              ELSE "answer",
                                 text |-> data.text, errorText |-> data.error])
        /\ UNCHANGED << serverVars, id, query >>

\* handleSubmit, lines 106-110: fetch or response.json() threw
FetchFails ==
    \E i \in DOMAIN inflight :
        /\ loading' = LoadingAfterCatch
        /\ error' = FetchErrorText
        /\ inflight' = RemoveAt(inflight, i)
        /\ done' = Append(done, [question |-> inflight[i].question,
                                 outcome |-> "exception", text |-> Undefined,
                                 errorText |-> Undefined])
        /\ UNCHANGED << serverVars, id, query, messageState >>

ClientNext ==
    \/ SetQuery
    \/ SubmitForm
    \/ handleEnter
    \/ ResponseArrives
    \/ FetchFails

\* the page of one document, before any request has reached POST
ClientInit ==
    /\ userId = "user_1"
    /\ reqBody = MalformedBody
    /\ streamSetup = FALSE
    /\ HandlerIdle
    /\ id \in {"A", "B"}
    /\ PageMounted

ClientSpec == ClientInit /\ [][ClientNext]_vars

ClientTypeOK ==
    /\ query \in Queries
    /\ loading \in BOOLEAN
    /\ Len(inflight) <= MaxSubmissions
    /\ \A i \in DOMAIN done : done[i].outcome \in {"answer", "errorField", "exception"}

-----------------------------------------------------------------------------
(* Properties *)

Range(s) == {s[i] : i \in 1..Len(s)}

IsPrefix(p, s) == Len(p) <= Len(s) /\ \A i \in 1..Len(p) : p[i] = s[i]

\* the value a string of decimal digits denotes
DigitValue(d) == CHOOSE v \in 0..9 : Digits[v + 1] = d
RECURSIVE DecimalValue(_)
DecimalValue(s) ==
    IF Len(s) = 0 THEN 0
    ELSE 10 * DecimalValue(SubSeq(s, 1, Len(s) - 1)) + DigitValue(s[Len(s)])

RetrievalEnded == chain \in {"synthesize", "streaming", "closed"} \/ failure \in {"synthesis", "midstream"}

\* C1: the step that returns the streaming response is taken only from a state in
\* which retrieval has ended, documentPromise is resolved and the manifest that
\* the response carries in x-sources has already been built from the retrieved
\* documents.
C1_ManifestBeforeResponse ==
    [][ (response.kind # "stream" /\ response'.kind = "stream")
          => /\ documentPromise.state = "resolved"
             /\ RetrievalEnded
             /\ documentPromise.value = retrieved
             /\ serializedSources = SerializeSources(retrieved)
             /\ response'.sources = serializedSources ]_vars

\* C1 witness: the response has been returned and the answer is still being
\* produced (a fragment beyond the first one exists).
C1_Witness ==
    /\ response.kind = "stream"
    /\ chain = "streaming"
    /\ generated = 2

\* C2: an answer fragment exists, or answer synthesis has started, only after the
\* retriever has ended and handleRetrieverEnd has resolved documentPromise with the
\* whole result, which is the context synthesis runs on.
C2_NoFragmentBeforeRetrieval ==
    (generated > 0 \/ chain \in {"streaming", "closed"} \/ failure \in {"synthesis", "midstream"})
        => /\ documentPromise.state = "resolved"
           /\ searches # << >>
           /\ documentPromise.value = retrieved
           /\ context = retrieved

\* C2 witness: a fragment has been produced, before the handler has responded.
C2_Witness ==
    /\ generated = 1
    /\ response.kind = "none"
    /\ Len(retrieved) = 2

\* C3: when the retrieval (query embedding or vector search) has failed and the
\* request has come to rest, POST has returned the error envelope
\* { error: message } with status 500, and no answer fragment was produced or
\* delivered.
C3_RetrievalFailureAnswered ==
    (failure \in {"embedding", "search"} /\ ~ENABLED Next)
        => /\ response = ErrorResponse(failure)
           /\ generated = 0
           /\ delivered = 0

\* What does hold after a failed retrieval: POST never returns the streaming
\* response and no fragment exists; a response, if one is given, is the envelope.
RetrievalFailureNeverStreams ==
    failure \in {"embedding", "search"}
        => /\ response.kind \in {"none", "error"}
           /\ response.kind = "error" => response = ErrorResponse(failure)
           /\ generated = 0
           /\ delivered = 0
           /\ chain = "failed"

\* The two ways a failed retrieval ends: the envelope was returned, or POST stays
\* at its await of documentPromise with nothing left to resolve it.
RetrievalFailureAnsweredState ==
    /\ failure = "search"
    /\ response.kind = "error"
    /\ pc = "done"

RetrievalFailureHangState ==
    /\ failure = "search"
    /\ pc = "awaitDocuments"
    /\ documentPromise.state = "pending"
    /\ ~ENABLED Next

\* C4: for a caller without userId nothing but the 401 response happens: the body
\* is never read, the pipeline never starts, no model, embedding or search call is
\* made.
C4_UnauthorizedNoPipeline ==
    userId = Null
        => /\ ~bodyRead
           /\ chain = "idle"
           /\ llmCalls = 0 /\ embedCalls = 0 /\ searches = << >>
           /\ pc \in {"auth", "done"}
           /\ pc = "done" => response = Unauthorized
           /\ response.kind \in {"none", "unauthorized"}

\* C4 witness: an unauthenticated caller has been answered 401.
C4_Witness ==
    /\ userId = Null
    /\ pc = "done"
    /\ response.status = StatusUnauthorized

\* C5: an authenticated request whose body has no messages field or an empty one
\* ends in the error response 'No messages provided.' and makes no model,
\* embedding or search call.
C5_EmptyMessagesRejected ==
    (userId # Null /\ reqBody.parses /\ (~reqBody.hasMessages \/ reqBody.messages = << >>))
        => /\ chain = "idle"
           /\ llmCalls = 0 /\ embedCalls = 0 /\ searches = << >>
           /\ pc \in {"auth", "body", "done"}
           /\ pc = "done" => response = ErrorResponse("No messages provided.")

\* C5 witness: a request without a messages field has been answered with the error.
C5_Witness ==
    /\ userId # Null
    /\ reqBody.parses
    /\ ~reqBody.hasMessages
    /\ response.kind = "error"

\* C6: the manifest of a streaming response has one entry per retrieved document,
\* entry i made from document i (its metadata, and a text that starts as the
\* document's text does); a search that finds nothing is answered with the
\* streaming response and an empty manifest, not with an error.
C6_ManifestMatchesRetrieval ==
    /\ response.kind = "stream"
         => /\ Len(response.sources) = Len(retrieved)
            /\ \A i \in 1..Len(retrieved) :
                  /\ response.sources[i].metadata = retrieved[i].metadata
                  /\ \E p \in {SubSeq(retrieved[i].pageContent, 1, k) :
                                 k \in 0..Len(retrieved[i].pageContent)} :
                        response.sources[i].pageContent = p \o Ellipsis
    /\ (RetrievalEnded /\ retrieved = << >> /\ failure = "none")
         => response.kind \in {"none", "stream"}

\* C6 witness: a streaming response over three retrieved documents.
C6_Witness ==
    /\ response.kind = "stream"
    /\ Len(retrieved) = 3

\* C7: every manifest text is the first min(50, length) characters of its
\* document's text followed by the ellipsis marker, so at most 50 characters of
\* the document, a prefix of it, plus the marker; the metadata is the document's.
C7_ExcerptBounded ==
    response.kind = "stream"
        => \A i \in 1..Len(response.sources) :
              LET entry == response.sources[i]
                  doc == retrieved[i]
                  n == Len(entry.pageContent) - Len(Ellipsis)
              IN  /\ i <= Len(retrieved)
                  /\ n >= 0
                  /\ n <= ExcerptLen
                  /\ n = Min(ExcerptLen, Len(doc.pageContent))
                  /\ IsPrefix(SubSeq(entry.pageContent, 1, n), doc.pageContent)
                  /\ SubSeq(entry.pageContent, n + 1, n + Len(Ellipsis)) = Ellipsis
                  /\ entry.metadata = doc.metadata

\* C7 witness: the manifest covers texts shorter than, equal to and longer than
\* 50 characters.
C7_Witness ==
    /\ response.kind = "stream"
    /\ \E i, j, k \in 1..Len(retrieved) :
          /\ Len(retrieved[i].pageContent) < ExcerptLen
          /\ Len(retrieved[j].pageContent) = ExcerptLen
          /\ Len(retrieved[k].pageContent) > ExcerptLen

\* C8: the x-message-index of a streaming response denotes the number of messages
\* of the request: the prior turns (all but the last) plus one.
C8_MessageIndex ==
    response.kind = "stream"
        => /\ DecimalValue(response.messageIndex) = Len(reqBody.messages)
           /\ DecimalValue(response.messageIndex) = Len(formattedPreviousMessages) + 1

\* C8 witness: a streaming response to a request with two prior turns.
C8_Witness ==
    /\ response.kind = "stream"
    /\ Len(reqBody.messages) = 3

\* C9: every search is scoped to the request's chatId, and a document indexed only
\* under other namespaces is neither retrieved, nor handed to synthesis, nor
\* resolved into documentPromise, nor listed in the manifest.
C9_NamespaceIsolation ==
    LET scope == ScopeOf(reqBody.chatId)
        foreign == UNION {PineconeIndex(ns) : ns \in Namespaces \ {scope}}
                      \ PineconeIndex(scope)
    IN  /\ \A i \in 1..Len(searches) : searches[i] = scope
        /\ chain # "idle" => namespace = reqBody.chatId
        /\ \A doc \in foreign :
              /\ doc \notin Range(retrieved)
              /\ doc \notin Range(context)
              /\ doc \notin Range(documentPromise.value)
              /\ \A i \in 1..Len(response.sources) :
                    response.sources[i].metadata # doc.metadata

\* C9 witness: a request for chatId "A" got documents while "B" holds a document
\* of its own.
C9_Witness ==
    /\ reqBody.chatId = "A"
    /\ response.kind = "stream"
    /\ Len(response.sources) > 0
    /\ PineconeIndex("B") \ PineconeIndex("A") # {}

\* C10: once the history is normalized it has one typed turn per prior message
\* (all but the last), in order: 'user' -> human, 'assistant' -> ai, any other
\* role -> generic with that role; every content is kept.
C10_HistoryNormalized ==
    (chain # "idle" \/ pc = "stream")
        => /\ Len(formattedPreviousMessages) = Len(reqBody.messages) - 1
           /\ \A i \in 1..Len(formattedPreviousMessages) :
                 LET raw == reqBody.messages[i]
                     turn == formattedPreviousMessages[i]
                 IN  /\ turn.content = raw.content
                     /\ raw.role = "user" => turn.type = "human"
                     /\ raw.role = "assistant" => turn.type = "ai"
                     /\ raw.role \notin {"user", "assistant"}
                           => turn.type = "generic" /\ turn.role = raw.role
                     /\ turn.type \in {"human", "ai"}
                           => raw.role \in {"user", "assistant"}
           /\ currentMessageContent = reqBody.messages[Len(reqBody.messages)].content

\* C10 witness: two prior turns of different kinds and contents have been
\* normalized.
C10_Witness ==
    /\ pc = "stream"
    /\ Len(formattedPreviousMessages) = 2
    /\ formattedPreviousMessages[1].type = "generic"
    /\ formattedPreviousMessages[2].type = "ai"
    /\ formattedPreviousMessages[1].content # formattedPreviousMessages[2].content

\* C11: a caller that was given the streaming response sees its body end as a
\* completion only when the pipeline ended the answer and every fragment was
\* delivered; when the pipeline failed, the body ends in the error state, never
\* as a completion of a shorter answer.
C11_FailureNotCleanEnd ==
    /\ streamEnd = "done"
         => failure = "none" /\ chain = "closed" /\ delivered = generated
    /\ streamEnd = "error" => failure # "none" /\ chain = "failed"
    /\ streamEnd # "open" => response.kind = "stream"

\* C11 witness: the model call broke after a fragment had been delivered, and the
\* caller saw the body end in error.
C11_Witness ==
    /\ failure = "midstream"
    /\ delivered >= 1
    /\ streamEnd = "error"

\* C12: the status of the error response tells the failure kinds apart, so a
\* rejected request (no messages) is not answered with the status POST gives to a
\* failed model call.
C12_StatusDistinguishesKind ==
    (response.kind = "error" /\ response.body = "No messages provided.")
        => response.status # ErrorResponse("rewrite").status

\* What the catch of line 421 does: every error response is the non-streaming
\* envelope with status 500 and the error's message as its body, whatever failed:
\* the body could not be parsed, it held no messages, or a step of the pipeline
\* failed before stream() returned.
ErrorEnvelopeAlways500 ==
    response.kind = "error"
        => /\ response.status = StatusError
           /\ response.messageIndex = << >> /\ response.sources = << >>
           /\ delivered = 0 /\ streamEnd = "open"
           /\ IF failure = "none"
                THEN response.body = (IF ~reqBody.parses
                                        THEN "Unexpected end of JSON input"
                                        ELSE "No messages provided.")
                ELSE response.body = failure

\* The rejected request answered as a server failure.
ValidationAnswered500 ==
    /\ response.kind = "error"
    /\ response.body = "No messages provided."
    /\ response.status = StatusError

\* The phase of the request in the orchestrator's terms.
Phase ==
    IF chain = "failed" \/ response.kind \in {"error", "unauthorized"} THEN "Failed"
    ELSE CASE chain = "idle" -> "Received"
           [] chain = "start" ->
                IF Len(formattedPreviousMessages) > 0 THEN "Rewriting" ELSE "Received"
           [] chain = "retrieve" -> "Retrieving"
           [] chain = "synthesize" -> "Synthesizing"
           [] chain = "streaming" -> "Streaming"
           [] OTHER -> "Completed"

\* the steps of the claimed state machine
PhaseStep(from, to) ==
    \/ to = "Failed" /\ from \notin {"Completed", "Failed"}
    \/ from = "Received" /\ to = "Rewriting"
    \/ from = "Rewriting" /\ to = "Retrieving"
    \/ from = "Retrieving" /\ to = "Synthesizing"
    \/ from = "Synthesizing" /\ to = "Streaming"
    \/ from = "Streaming" /\ to = "Completed"

\* C13 as claimed: the phase changes only along Received, Rewriting, Retrieving,
\* Synthesizing, Streaming, Completed, one step at a time, or to Failed from a
\* phase that is not terminal; Retrieving is entered from Rewriting only.
C13_PhasesStrictlySequential ==
    [][ Phase' # Phase => PhaseStep(Phase, Phase') ]_vars

\* C13 as amended: as claimed, except that a request without prior turns goes
\* from Received to Retrieving with no rewriting call; with prior turns Rewriting
\* is entered, and left for Retrieving by exactly one model call.
C13_PhasesSequentialOrSkip ==
    [][ Phase' # Phase
          => \/ /\ PhaseStep(Phase, Phase')
                /\ Phase' = "Rewriting" => Len(formattedPreviousMessages) > 0
                /\ (Phase = "Rewriting" /\ Phase' = "Retrieving")
                      => llmCalls' = llmCalls + 1
             \/ /\ Phase = "Received" /\ Phase' = "Retrieving"
                /\ Len(formattedPreviousMessages) = 0
                /\ llmCalls' = llmCalls /\ llmCalls = 0 ]_vars

\* C13 witness: a request with prior turns has gone through every phase.
C13_Witness ==
    /\ Phase = "Completed"
    /\ Len(formattedPreviousMessages) > 0
    /\ llmCalls = 2
    /\ generated > 0

\* the rewriting calls a request is due: one with prior turns, none without
RewritesDue == IF Len(formattedPreviousMessages) > 0 THEN 1 ELSE 0

\* C14: the pipeline issues the rewriting call, the query embedding, the vector
\* search and the synthesis call at most once each, and once one of them has
\* failed the calls made stay those made up to the failure.
C14_NoRetry ==
    /\ llmCalls <= RewritesDue + 1
    /\ embedCalls <= 1
    /\ Len(searches) <= 1
    /\ failure = "rewrite" => llmCalls = 1 /\ embedCalls = 0 /\ searches = << >>
    /\ failure = "embedding"
         => llmCalls = RewritesDue /\ embedCalls = 1 /\ searches = << >>
    /\ failure = "search"
         => llmCalls = RewritesDue /\ embedCalls = 1 /\ Len(searches) = 1
    /\ failure \in {"synthesis", "midstream"}
         => llmCalls = RewritesDue + 1 /\ embedCalls = 1 /\ Len(searches) = 1

\* C14 witness: the synthesis call failed after a rewriting call and a search.
C14_Witness ==
    /\ failure = "synthesis"
    /\ llmCalls = 2
    /\ Len(searches) = 1

\* C15: when an authenticated request with messages has come to rest, POST has
\* returned a response.
C15_AlwaysResponds ==
    (userId # Null /\ reqBody.parses /\ Len(MessagesOf(reqBody)) > 0 /\ ~ENABLED Next)
        => response.kind # "none"

\* How a request can rest unanswered: the rewriting call failed, nothing is left
\* to resolve documentPromise, and POST awaits it.
RewriteFailureHangState ==
    /\ failure = "rewrite"
    /\ pc = "awaitDocuments"
    /\ documentPromise.state = "pending"
    /\ response.kind = "none"
    /\ ~ENABLED Next

\* C16: every body the chat page has sent is one POST accepts for an
\* authenticated user: read by POST it has messages, and the newest of them is
\* the question that was asked.
C16_SentBodyAccepted ==
    \A i \in DOMAIN inflight :
        LET received == MessagesOf(ReceivedBody(inflight[i])) IN
        /\ ~NoMessages(received)
        /\ received[Len(received)].content = inflight[i].question

\* A body the page sent is one of the bodies POST throws 'No messages provided.'
\* on, whatever was asked.
SentBodyRejected ==
    /\ inflight # << >>
    /\ inflight[1].question = << "h", "i" >>
    /\ ReceivedBody(inflight[1]) \in Bodies
    /\ NoMessages(MessagesOf(ReceivedBody(inflight[1])))

\* C17: no request in flight carries an empty question and no userMessage of the
\* list has an empty text, however the question was typed and submitted.
C17_NoEmptySubmission ==
    /\ \A i \in DOMAIN inflight : inflight[i].question # << >>
    /\ \A i \in DOMAIN messageState.messages :
          messageState.messages[i].type = "userMessage"
              => messageState.messages[i].message # << >>

\* The empty question as it is sent: an empty userMessage is shown and the
\* request awaits its reply.
EmptyQuestionSent ==
    /\ inflight # << >>
    /\ inflight[1].question = << >>
    /\ loading
    /\ messageState.messages[Len(messageState.messages)] = UserMessage(<< >>)

\* C18: loading is true exactly in the states where a request the page sent is
\* awaiting its reply; after an answer, an error reply or an exception, and
\* after a submission rejected for its empty query, it is false.
C18_LoadingIffAwaiting ==
    loading <=> inflight # << >>

\* C18 witness: a request ended in the catch and the page is idle again.
C18_Witness ==
    /\ done # << >>
    /\ done[Len(done)].outcome = "exception"
    /\ inflight = << >>
    /\ ~loading
    /\ error = FetchErrorText

\* the finished requests whose reply had no error field
Answered == {i \in DOMAIN done : done[i].outcome = "answer"}

\* the finished requests the page took for answered: if (data.error) is false
TakenForAnswered ==
    {i \in DOMAIN done :
        \/ done[i].outcome = "answer"
        \/ done[i].outcome = "errorField" /\ done[i].errorText = ""}

\* C19: history holds one pair per reply that had no error field, and the list
\* holds the greeting, one userMessage per question sent and one apiMessage per
\* such reply; replies with an error field and exceptions add nothing to either.
C19_HistoryOnlyOnSuccess ==
    /\ Len(messageState.history) = Cardinality(Answered)
    /\ Len(messageState.messages) = 1 + Submissions + Cardinality(Answered)

\* What handleSubmit keeps instead: history and the list grow with every reply
\* whose error field is absent or falsy.
HistoryCountsFalsyErrors ==
    /\ Len(messageState.history) = Cardinality(TakenForAnswered)
    /\ Len(messageState.messages) = 1 + Submissions + Cardinality(TakenForAnswered)
    /\ messageState.messages[1] = Greeting

\* A reply with an empty error text taken for an answer: a pair without an
\* answer is in history and no error is shown.
EmptyErrorTakenForAnswer ==
    /\ Len(done) = 1
    /\ done[1].outcome = "errorField"
    /\ messageState.history = << << done[1].question, Undefined >> >>
    /\ error = Null

\* C20: at most one request is in flight; while loading, the input and the
\* button are disabled; the request in flight carries the page's history, which
\* holds the pair of every earlier answered question.
C20_OneRequestInFlight ==
    /\ Len(inflight) <= 1
    /\ loading => InputDisabled
    /\ \A i \in DOMAIN inflight :
          /\ inflight[i].history = messageState.history
          /\ \A j \in Answered :
                \E k \in DOMAIN inflight[i].history :
                    inflight[i].history[k] = << done[j].question, done[j].text >>

\* C20 witness: a second request is in flight and carries the first answer.
C20_Witness ==
    /\ Len(inflight) = 1
    /\ Len(done) = 1
    /\ done[1].outcome = "answer"
    /\ inflight[1].history = << << done[1].question, done[1].text >> >>

====
